---- MODULE Spec2Model ----
(***************************************************************************)
(* Model of the streaming backend of the Self-Correcting Agents web UI.   *)
(*                                                                         *)
(*   backend/azure_client.py  stream_agent_response, process_stream_event  *)
(*   backend/main.py          event_generator, run_sync_generator          *)
(*                                                                         *)
(* One request is modelled: the worker thread that drives the generator    *)
(* stream_agent_response and puts what it yields on event_queue, and the   *)
(* async generator event_generator that polls the queue and yields SSE     *)
(* frames.  The remote service (create / open stream / next event /        *)
(* delete) and the HTTP client (which may disconnect) are the environment. *)
(***************************************************************************)
EXTENDS Integers, Sequences, FiniteSets, TLC

(***************************************************************************)
(* Bounds of the model.                                                    *)
(***************************************************************************)
\* The upstream response stream delivers at most MaxEvents raw events
\* before it ends or raises.
MaxEvents == 3

(***************************************************************************)
(* Python values.  Every value is a record tagged by `py`, so that values  *)
(* of different Python types can be compared.                              *)
(***************************************************************************)
\* An attribute that the object does not have (getattr falls back to its
\* default, plain attribute access raises AttributeError).
Absent == [py |-> "absent"]
None == [py |-> "none"]
Str(s) == [py |-> "str", s |-> s]
IntV(n) == [py |-> "int", n |-> n]
\* A value json.dumps has no encoding for.
Opaque == [py |-> "object"]
\* A dict whose keys are the fields of the record d.
Dict(d) == [py |-> "dict", d |-> d]
EmptyDict == [py |-> "dict", d |-> <<>>]

\* Truthiness without the test: `if item:` left out.
TruthyAlways(v) == TRUE

\* Python truthiness, as used by `if item:` and `... and event.response.usage`.
Truthy(v) ==
    CASE v.py = "absent" -> FALSE
      [] v.py = "none" -> FALSE
      [] v.py = "str" -> v.s # ""
      [] v.py = "int" -> v.n # 0
      [] v.py = "dict" -> DOMAIN v.d # {}
      [] OTHER -> TRUE

\* getattr(obj, name, default)
Getattr(obj, name, default) ==
    IF obj.py = "instance" /\ name \in DOMAIN obj /\ obj[name] # Absent
    THEN obj[name]
    ELSE default

\* hasattr(obj, name)
Hasattr(obj, name) ==
    obj.py = "instance" /\ name \in DOMAIN obj /\ obj[name] # Absent

\* str(v) that is repr(v): a string comes back quoted.
PyStrRepr(v) ==
    CASE v.py = "str" -> Str("'" \o v.s \o "'")
      [] v.py = "none" -> Str("None")
      [] v.py = "int" -> Str(ToString(v.n))
      [] OTHER -> Str("<object>")

\* str(v)
PyStr(v) ==
    CASE v.py = "str" -> v
      [] v.py = "none" -> Str("None")
      [] v.py = "int" -> Str(ToString(v.n))
      [] v.py = "instance" /\ "type" \in DOMAIN v -> Str("<" \o v.type.s \o ">")
      [] OTHER -> Str("<object>")

(***************************************************************************)
(* Raw upstream events: instances with a `type` and optional attributes.   *)
(***************************************************************************)
RESPONSE_OUTPUT_TEXT_DONE == "response.output_text.done"
RESPONSE_OUTPUT_TEXT_DELTA == "response.output_text.delta"
RESPONSE_OUTPUT_ITEM_ADDED == "response.output_item.added"
RESPONSE_OUTPUT_ITEM_DONE == "response.output_item.done"
RESPONSE_CREATED == "response.created"
RESPONSE_IN_PROGRESS == "response.in_progress"
RESPONSE_COMPLETED == "response.completed"
RESPONSE_FAILED == "response.failed"
CONTENT_PART_ADDED == "response.content_part.added"
CONTENT_PART_DONE == "response.content_part.done"
ERROR == "error"

\* An event of the given kind with none of the optional attributes.
RawEvent(kind) ==
    [py |-> "instance", type |-> Str(kind), text |-> Absent, delta |-> Absent,
     item |-> Absent, response |-> Absent, part |-> Absent,
     content_index |-> Absent, error |-> Absent]

\* An item sub-record with none of its optional attributes.
Item(type) ==
    [py |-> "instance", type |-> type, action_id |-> Absent, status |-> Absent,
     previous_action_id |-> Absent, role |-> Absent, id |-> Absent]

Response(id, usage) == [py |-> "instance", id |-> id, usage |-> usage]
Usage(input, output) ==
    [py |-> "instance", input_tokens |-> input, output_tokens |-> output]
Part(type) == [py |-> "instance", type |-> type]

(***************************************************************************)
(* Outward events (the dicts the generator yields) and the outcome of a    *)
(* call: a returned value or a raised exception.                           *)
(***************************************************************************)
Outward(name, data) == [event |-> name, data |-> data]

Return(v) == [kind |-> "return", value |-> v]
ReturnNone == [kind |-> "none"]
Raise(exc) == [kind |-> "raise", exc |-> exc]

AttributeError == "AttributeError"
TypeError == "TypeError"

\* ItemEvent with the defaults of status and id exchanged.
ItemEventDefaultsExchanged(item, actionName, messageName, otherName) ==
    LET item_type == Getattr(item, "type", Str("unknown"))
    IN  IF item_type = Str("workflow_action")
        THEN Outward(actionName,
                 [action_id |-> Getattr(item, "action_id", Str("unknown")),
                  status |-> Getattr(item, "status", Str("N/A")),
                  previous_action_id |-> Getattr(item, "previous_action_id", None)])
        ELSE IF item_type = Str("message")
        THEN Outward(messageName,
                 [role |-> Getattr(item, "role", Str("unknown")),
                  id |-> Getattr(item, "id", Str("unknown"))])
        ELSE Outward(otherName, [type |-> item_type])

\* ContentPartEvent that reports the index of the part as always 0.
ContentPartEventIndexZero(event, name) ==
    LET part == Getattr(event, "part", None)
        part_type == IF Truthy(part)
                     THEN Getattr(part, "type", Str("unknown"))
                     ELSE Str("unknown")
    IN  Outward(name, [type |-> part_type, content_index |-> IntV(0)])

\* The outward event for an output item, added or done.
ItemEvent(item, actionName, messageName, otherName) ==
    LET item_type == Getattr(item, "type", Str("unknown"))
    IN  IF item_type = Str("workflow_action")
        THEN Outward(actionName,
                 [action_id |-> Getattr(item, "action_id", Str("unknown")),
                  status |-> Getattr(item, "status", Str("unknown")),
                  previous_action_id |-> Getattr(item, "previous_action_id", None)])
        ELSE IF item_type = Str("message")
        THEN Outward(messageName,
                 [role |-> Getattr(item, "role", Str("unknown")),
                  id |-> Getattr(item, "id", Str("N/A"))])
        ELSE Outward(otherName, [type |-> item_type])

\* The outward event for a content part, added or done.
ContentPartEvent(event, name) ==
    LET part == Getattr(event, "part", None)
        part_type == IF Truthy(part)
                     THEN Getattr(part, "type", Str("unknown"))
                     ELSE Str("unknown")
    IN  Outward(name, [type |-> part_type,
                       content_index |-> Getattr(event, "content_index", IntV(0))])

\* process_stream_event(event): the outward event, nothing, or an exception.
process_stream_event(event) ==
    LET type == event.type.s IN
    CASE type = RESPONSE_OUTPUT_TEXT_DONE ->
            IF event.text = Absent THEN Raise(AttributeError)
            ELSE Return(Outward("text_done", [text |-> event.text]))
      [] type = RESPONSE_OUTPUT_TEXT_DELTA ->
            IF event.delta = Absent THEN Raise(AttributeError)
            ELSE Return(Outward("text_delta", [delta |-> event.delta]))
      [] type = RESPONSE_OUTPUT_ITEM_ADDED ->
            LET item == Getattr(event, "item", None)
            IN  IF Truthy(item)
                THEN Return(ItemEvent(item, "action_started", "message_started",
                                      "item_added"))
                ELSE ReturnNone
      [] type = RESPONSE_OUTPUT_ITEM_DONE ->
            LET item == Getattr(event, "item", None)
            IN  IF Truthy(item)
                THEN Return(ItemEvent(item, "action_completed", "message_done",
                                      "item_done"))
                ELSE ReturnNone
      [] type = RESPONSE_CREATED ->
            IF ~Hasattr(event, "response") \/ ~Hasattr(event.response, "id")
            THEN Raise(AttributeError)
            ELSE Return(Outward("response_status",
                     [status |-> Str("created"), response_id |-> event.response.id]))
      [] type = RESPONSE_IN_PROGRESS ->
            Return(Outward("response_status", [status |-> Str("in_progress")]))
      [] type = RESPONSE_COMPLETED ->
            IF ~Hasattr(event, "response") THEN Raise(AttributeError)
            ELSE LET usage_data ==
                         IF Hasattr(event.response, "usage")
                            /\ Truthy(event.response.usage)
                         THEN LET usage == event.response.usage
                              IN  Dict([input_tokens |->
                                            Getattr(usage, "input_tokens", IntV(0)),
                                        output_tokens |->
                                            Getattr(usage, "output_tokens", IntV(0))])
                         ELSE EmptyDict
                 IN  Return(Outward("response_status",
                         [status |-> Str("completed"), usage |-> usage_data]))
      [] type = RESPONSE_FAILED ->
            LET error_msg == IF Hasattr(event, "error")
                             THEN PyStr(event.error) ELSE Str("")
            IN  Return(Outward("response_status",
                    [status |-> Str("failed"), error |-> error_msg]))
      [] type = CONTENT_PART_ADDED ->
            Return(ContentPartEvent(event, "content_part_added"))
      [] type = CONTENT_PART_DONE ->
            Return(ContentPartEvent(event, "content_part_done"))
      [] type = ERROR ->
            Return(Outward("error", [message |-> PyStr(event)]))
      [] OTHER ->
            Return(Outward("unknown", [type |-> PyStr(event.type)]))

(***************************************************************************)
(* json.dumps and the SSE frames of event_generator.                       *)
(***************************************************************************)
RECURSIVE Serializable(_)
\* Whether json.dumps has an encoding for the value.
Serializable(v) ==
    CASE v.py = "str" -> TRUE
      [] v.py = "int" -> TRUE
      [] v.py = "none" -> TRUE
      [] v.py = "dict" -> \A k \in DOMAIN v.d : Serializable(v.d[k])
      [] OTHER -> FALSE

RECURSIVE JsonOf(_)
\* The JSON text of a serializable value, as a syntax tree.
JsonOf(v) ==
    CASE v.py = "str" -> [json |-> "string", s |-> v.s]
      [] v.py = "int" -> [json |-> "number", n |-> v.n]
      [] v.py = "none" -> [json |-> "null"]
      [] v.py = "dict" -> [json |-> "object",
                           members |-> [k \in DOMAIN v.d |-> JsonOf(v.d[k])]]

\* json.dumps(v): the JSON text, or TypeError.
json_dumps(v) ==
    IF Serializable(v) THEN Return(JsonOf(v)) ELSE Raise(TypeError)

\* f"event: {event_type}\ndata: {event_data}\n\n"
Frame(event_type, event_data) == [event |-> event_type, data |-> event_data]

\* The frame of a dequeued event, or the exception json.dumps raises.
EventFrame(event) ==
    LET event_data == json_dumps(Dict(event.data))
    IN  IF event_data.kind = "raise" THEN event_data
        ELSE Return(Frame(event.event, event_data.value))

\* The frame event_generator yields when its loop raised e.
ErrorFrame(e) ==
    Frame("error", json_dumps(Dict([message |-> Str(e)])).value)

\* f"event: done\ndata: {{}}\n\n"
DoneFrame == Frame("done", [json |-> "object", members |-> <<>>])

(***************************************************************************)
(* The events stream_agent_response and run_sync_generator build.          *)
(***************************************************************************)
ConversationCreated(conversation) ==
    Outward("conversation_created", [conversation_id |-> conversation.id])

ConversationDeleted(conversation) ==
    Outward("conversation_deleted", [conversation_id |-> conversation.id])

\* {"event": "error", "data": {"message": str(e)}}
ErrorEvent(e) == Outward("error", [message |-> Str(e)])

(***************************************************************************)
(* The environment: what the remote service can answer.                    *)
(***************************************************************************)
ConversationIds == {"conv_1", "conv_2"}
Conversation(id) == [py |-> "instance", id |-> Str(id)]

NoException == "<no exception>"
CreateError == "create failed"
OpenError == "open failed"
StreamError == "stream failed"
DeleteError == "delete failed"

\* A text delta carrying "pong".
TextDelta == [RawEvent(RESPONSE_OUTPUT_TEXT_DELTA) EXCEPT !.delta = Str("pong")]
\* An item-added event with no item sub-record.
ItemAddedNoItem == RawEvent(RESPONSE_OUTPUT_ITEM_ADDED)
\* A text-done event with no text attribute.
TextDoneNoText == RawEvent(RESPONSE_OUTPUT_TEXT_DONE)
\* A workflow action whose previous_action_id json.dumps cannot encode.
ActionOpaque ==
    [RawEvent(RESPONSE_OUTPUT_ITEM_ADDED) EXCEPT !.item =
        [Item(Str("workflow_action")) EXCEPT !.action_id = Str("a1"),
                                             !.status = Str("running"),
                                             !.previous_action_id = Opaque]]
\* An event of the explicit error kind.
ErrorKind == RawEvent(ERROR)

\* The raw events the upstream stream of the model can deliver.
StreamEvents == {TextDelta, ItemAddedNoItem, TextDoneNoText, ActionOpaque, ErrorKind}

(***************************************************************************)
(* State.                                                                  *)
(***************************************************************************)
VARIABLES
    wstate,        \* where the worker thread is in run_sync_generator /
                   \* stream_agent_response
    conversation,  \* the conversation create() returned, None before
    stream_exc,    \* the exception caught at azure_client.py:56
    worker_exc,    \* the exception caught at main.py:45
    received,      \* the raw events taken from the response stream so far
    remote_calls,  \* the calls made to the remote service, in order
    yielded,       \* the events stream_agent_response has yielded so far
    event_queue,   \* event_queue: the items put and not yet got
    delivered,     \* the items event_generator has got from event_queue
    frames,        \* the frames event_generator has yielded so far
    cstate,        \* where event_generator is
    requests       \* the requests served side by side (see "Concurrent
                   \* requests"): for each, the same eleven fields

vars == <<wstate, conversation, stream_exc, worker_exc, received, remote_calls,
          yielded, event_queue, delivered, frames, cstate, requests>>

\* What the consumer leaves alone, and what the worker leaves alone.  The
\* requests served side by side are in both: they are stepped only by the
\* actions of "Concurrent requests".
worker_vars == <<wstate, conversation, stream_exc, worker_exc, received,
                 remote_calls, yielded, requests>>
consumer_vars == <<delivered, frames, cstate, requests>>

\* The calls of event_generator in progress at the same time, each for one
\* POST /api/chat.
Requests == {"request_1", "request_2"}

\* The locals of one call of event_generator and of its worker thread when
\* the call starts: the fields of Init.
NewRequest ==
    [wstate |-> "creating", conversation |-> None,
     stream_exc |-> NoException, worker_exc |-> NoException,
     received |-> <<>>, remote_calls |-> <<>>, yielded |-> <<>>,
     event_queue |-> <<>>, delivered |-> <<>>, frames |-> <<>>,
     cstate |-> "polling"]

Call(op, id, outcome) == [op |-> op, conversation_id |-> id, outcome |-> outcome]

\* Put on a last-in first-out queue (queue.LifoQueue).
PutLifo(queue, item) == <<item>> \o queue

\* Put on a queue of one slot that drops the item when the slot is taken
\* (queue.Queue(maxsize=1) with put_nowait and queue.Full ignored).
PutDropsWhenFull(queue, item) ==
    IF Len(queue) >= 1 THEN queue ELSE Append(queue, item)

\* event_queue.put(item)
Put(queue, item) == Append(queue, item)

\* YieldAndPut on a queue of one slot (queue.Queue(maxsize=1)): the put
\* waits while the slot is taken.
YieldAndPutWhenRoom(event) ==
    /\ Len(event_queue) < 1
    /\ yielded' = Append(yielded, event)
    /\ event_queue' = Put(event_queue, event)

\* The generator yields event and run_sync_generator puts it on the queue.
YieldAndPut(event) ==
    /\ yielded' = Append(yielded, event)
    /\ event_queue' = Put(event_queue, event)

Init ==
    /\ wstate = "creating"
    /\ conversation = None
    /\ stream_exc = NoException
    /\ worker_exc = NoException
    /\ received = <<>>
    /\ remote_calls = <<>>
    /\ yielded = <<>>
    /\ event_queue = <<>>
    /\ delivered = <<>>
    /\ frames = <<>>
    /\ cstate = "polling"
    /\ requests = [r \in Requests |-> NewRequest]

(***************************************************************************)
(* The worker thread: run_sync_generator driving stream_agent_response.    *)
(* The remote calls are create, open, next event and delete; each returns  *)
(* or raises.  Leaving `with project_client:` closes a local client and is *)
(* taken to return.  What the generator yields and the put that follows    *)
(* are one step: nothing else can see the yielded event in between.        *)
(***************************************************************************)
\* conversations.create() returns a conversation; the generator yields
\* conversation_created.
CreateSucceeds(id) ==
    /\ wstate = "creating"
    /\ conversation' = Conversation(id)
    /\ remote_calls' = Append(remote_calls, Call("create", id, "returned"))
    /\ YieldAndPut(ConversationCreated(conversation'))
    /\ wstate' = "opening"
    /\ UNCHANGED <<stream_exc, worker_exc, received, consumer_vars>>

\* CreateRaises without the put(None) of the except clause of
\* run_sync_generator.
CreateRaisesNoMarker ==
    /\ wstate = "creating"
    /\ remote_calls' = Append(remote_calls, Call("create", "", "raised"))
    /\ worker_exc' = CreateError
    /\ event_queue' = Put(event_queue, ErrorEvent(worker_exc'))
    /\ wstate' = "finished"
    /\ UNCHANGED <<conversation, stream_exc, received, yielded, consumer_vars>>

\* CreateRaises with conversations.create() inside the try statement: its
\* exception is yielded as an error event by the generator, which then runs
\* its finally clause.
CreateRaisesInsideTry ==
    /\ wstate = "creating"
    /\ remote_calls' = Append(remote_calls, Call("create", "", "raised"))
    /\ stream_exc' = CreateError
    /\ YieldAndPut(ErrorEvent(CreateError))
    /\ wstate' = "completing"
    /\ UNCHANGED <<conversation, worker_exc, received, consumer_vars>>

\* conversations.create() (or building the client before it) raises: the
\* exception leaves the generator and run_sync_generator puts an error event.
CreateRaises ==
    /\ wstate = "creating"
    /\ remote_calls' = Append(remote_calls, Call("create", "", "raised"))
    /\ worker_exc' = CreateError
    /\ event_queue' = Put(event_queue, ErrorEvent(worker_exc'))
    /\ wstate' = "completing"
    /\ UNCHANGED <<conversation, stream_exc, received, yielded, consumer_vars>>

\* StreamingFailed with the delete call after the try statement instead of
\* in its finally clause, so that a failed stream skips it.
StreamingFailedSkipsCleanup(e) ==
    /\ stream_exc' = e
    /\ YieldAndPut(ErrorEvent(e))
    /\ wstate' = "completing"

\* StreamingFailed with the try statement inside the loop: the error event
\* is yielded and the worker goes on where it was.
StreamingFailedKeepsStreaming(e) ==
    /\ stream_exc' = e
    /\ YieldAndPut(ErrorEvent(e))
    /\ wstate' = wstate

\* The except clause of stream_agent_response: one error event, then the
\* finally clause.
StreamingFailed(e) ==
    /\ stream_exc' = e
    /\ YieldAndPut(ErrorEvent(e))
    /\ wstate' = "deleting"

\* responses.create(..., stream=True) returns the stream.
OpenSucceeds ==
    /\ wstate = "opening"
    /\ remote_calls' = Append(remote_calls,
                              Call("open", conversation.id.s, "returned"))
    /\ wstate' = "streaming"
    /\ UNCHANGED <<conversation, stream_exc, worker_exc, received, yielded,
                   event_queue, consumer_vars>>

\* responses.create(..., stream=True) raises.
OpenRaises ==
    /\ wstate = "opening"
    /\ remote_calls' = Append(remote_calls,
                              Call("open", conversation.id.s, "raised"))
    /\ StreamingFailed(OpenError)
    /\ UNCHANGED <<conversation, worker_exc, received, consumer_vars>>

\* StreamEvent with a break after an event of the error kind or of the
\* response-failed kind is forwarded: the stream is not read again.
StreamEventErrorKindEnds(event) ==
    /\ wstate = "streaming"
    /\ Len(received) < MaxEvents
    /\ received' = Append(received, event)
    /\ LET sse_event == process_stream_event(event)
       IN  CASE sse_event.kind = "return" ->
                    /\ YieldAndPut(sse_event.value)
                    /\ wstate' = IF event.type.s \in {ERROR, RESPONSE_FAILED}
                                 THEN "deleting" ELSE wstate
                    /\ UNCHANGED stream_exc
             [] sse_event.kind = "none" ->
                    UNCHANGED <<wstate, stream_exc, yielded, event_queue>>
             [] sse_event.kind = "raise" ->
                    StreamingFailed(sse_event.exc)
    /\ UNCHANGED <<conversation, worker_exc, remote_calls, consumer_vars>>

\* The stream delivers the raw event; it is normalized and, when the result
\* is not None, yielded.  An exception of process_stream_event is caught
\* like one of the stream.
StreamEvent(event) ==
    /\ wstate = "streaming"
    /\ Len(received) < MaxEvents
    /\ received' = Append(received, event)
    /\ LET sse_event == process_stream_event(event)
       IN  CASE sse_event.kind = "return" ->
                    /\ YieldAndPut(sse_event.value)
                    /\ UNCHANGED <<wstate, stream_exc>>
             [] sse_event.kind = "none" ->
                    UNCHANGED <<wstate, stream_exc, yielded, event_queue>>
             [] sse_event.kind = "raise" ->
                    StreamingFailed(sse_event.exc)
    /\ UNCHANGED <<conversation, worker_exc, remote_calls, consumer_vars>>

\* The stream is exhausted.
StreamEnds ==
    /\ wstate = "streaming"
    /\ wstate' = "deleting"
    /\ UNCHANGED <<conversation, stream_exc, worker_exc, received, remote_calls,
                   yielded, event_queue, consumer_vars>>

\* Iterating the stream raises.
StreamRaises ==
    /\ wstate = "streaming"
    /\ StreamingFailed(StreamError)
    /\ UNCHANGED <<conversation, worker_exc, received, remote_calls,
                   consumer_vars>>

\* DeleteSucceeds without the yield of conversation_deleted.
DeleteSucceedsSilently ==
    /\ wstate = "deleting"
    /\ remote_calls' = Append(remote_calls,
                              Call("delete", conversation.id.s, "returned"))
    /\ wstate' = "completing"
    /\ UNCHANGED <<conversation, stream_exc, worker_exc, received, yielded,
                   event_queue, consumer_vars>>

\* finally: conversations.delete() returns; conversation_deleted is yielded.
DeleteSucceeds ==
    /\ wstate = "deleting"
    /\ remote_calls' = Append(remote_calls,
                              Call("delete", conversation.id.s, "returned"))
    /\ YieldAndPut(ConversationDeleted(conversation))
    /\ wstate' = "completing"
    /\ UNCHANGED <<conversation, stream_exc, worker_exc, received, consumer_vars>>

\* DeleteRaises with the delete call retried after it raised.
DeleteRaisesRetries ==
    /\ wstate = "deleting"
    /\ remote_calls' = Append(remote_calls,
                              Call("delete", conversation.id.s, "raised"))
    /\ wstate' = "deleting"
    /\ UNCHANGED <<conversation, stream_exc, worker_exc, received, yielded,
                   event_queue, consumer_vars>>

\* DeleteRaises with the exception of the delete call reported like any
\* other: an error event is yielded.
DeleteRaisesSurfaces ==
    /\ wstate = "deleting"
    /\ remote_calls' = Append(remote_calls,
                              Call("delete", conversation.id.s, "raised"))
    /\ YieldAndPut(ErrorEvent(DeleteError))
    /\ wstate' = "completing"
    /\ UNCHANGED <<conversation, stream_exc, worker_exc, received, consumer_vars>>

\* DeleteRaises with conversation_deleted yielded before the delete call.
DeleteRaisesAnnounced ==
    /\ wstate = "deleting"
    /\ remote_calls' = Append(remote_calls,
                              Call("delete", conversation.id.s, "raised"))
    /\ YieldAndPut(ConversationDeleted(conversation))
    /\ wstate' = "completing"
    /\ UNCHANGED <<conversation, stream_exc, worker_exc, received, consumer_vars>>

\* finally: conversations.delete() raises; except Exception: pass.
DeleteRaises ==
    /\ wstate = "deleting"
    /\ remote_calls' = Append(remote_calls,
                              Call("delete", conversation.id.s, "raised"))
    /\ wstate' = "completing"
    /\ UNCHANGED <<conversation, stream_exc, worker_exc, received, yielded,
                   event_queue, consumer_vars>>

\* PutMarker with the marker put in a finally clause as well: twice.
PutMarkerTwice ==
    /\ wstate = "completing"
    /\ event_queue' = Put(Put(event_queue, None), None)
    /\ wstate' = "finished"
    /\ UNCHANGED <<conversation, stream_exc, worker_exc, received, remote_calls,
                   yielded, consumer_vars>>

\* event_queue.put(None): the completion signal, on both paths of
\* run_sync_generator.
PutMarker ==
    /\ wstate = "completing"
    /\ event_queue' = Put(event_queue, None)
    /\ wstate' = "finished"
    /\ UNCHANGED <<conversation, stream_exc, worker_exc, received, remote_calls,
                   yielded, consumer_vars>>

Worker ==
    \/ \E id \in ConversationIds : CreateSucceeds(id)
    \/ CreateRaises
    \/ OpenSucceeds
    \/ OpenRaises
    \/ \E event \in StreamEvents : StreamEvent(event)
    \/ StreamEnds
    \/ StreamRaises
    \/ DeleteSucceeds
    \/ DeleteRaises
    \/ PutMarker

(***************************************************************************)
(* The consumer: the loop of event_generator, resumed by the server for    *)
(* each frame, and closed by it when the client disconnects.               *)
(***************************************************************************)
\* GetEvent with the try statement inside the loop and the exception of
\* json.dumps passed over: the event is dropped and polling goes on.
GetEventSkipsRejected ==
    /\ cstate = "polling"
    /\ event_queue # <<>>
    /\ Head(event_queue) # None
    /\ LET event == Head(event_queue)
           frame == EventFrame(event)
       IN  /\ event_queue' = Tail(event_queue)
           /\ delivered' = Append(delivered, event)
           /\ frames' = IF frame.kind = "return"
                        THEN Append(frames, frame.value) ELSE frames
           /\ cstate' = "polling"
    /\ UNCHANGED worker_vars

\* event_queue.get(timeout=0.1) returns an event: its frame is yielded, or,
\* when json.dumps raises, the error frame.
GetEvent ==
    /\ cstate = "polling"
    /\ event_queue # <<>>
    /\ Head(event_queue) # None
    /\ LET event == Head(event_queue)
           frame == EventFrame(event)
       IN  /\ event_queue' = Tail(event_queue)
           /\ delivered' = Append(delivered, event)
           /\ IF frame.kind = "return"
              THEN /\ frames' = Append(frames, frame.value)
                   /\ cstate' = "polling"
              ELSE /\ frames' = Append(frames, ErrorFrame(frame.exc))
                   /\ cstate' = "failed"
    /\ UNCHANGED worker_vars

\* event_queue.get(timeout=0.1) returns None: break, and the done frame.
GetMarker ==
    /\ cstate = "polling"
    /\ event_queue # <<>>
    /\ Head(event_queue) = None
    /\ event_queue' = Tail(event_queue)
    /\ delivered' = Append(delivered, None)
    /\ frames' = Append(frames, DoneFrame)
    /\ cstate' = "done"
    /\ UNCHANGED worker_vars

\* event_queue.get(timeout=0.1) raises queue.Empty: continue.
PollEmpty ==
    /\ cstate = "polling"
    /\ event_queue = <<>>
    /\ UNCHANGED vars

\* The done frame after the error frame of the except clause.
SendDone ==
    /\ cstate = "failed"
    /\ frames' = Append(frames, DoneFrame)
    /\ cstate' = "done"
    /\ UNCHANGED <<worker_vars, event_queue, delivered>>

\* The client disconnects: the server cancels the response and the generator
\* is left (CancelledError at the await, GeneratorExit at a yield: neither
\* is an Exception, so nothing more is yielded).
Disconnect ==
    /\ cstate \in {"polling", "failed"}
    /\ cstate' = "cancelled"
    /\ UNCHANGED <<worker_vars, event_queue, delivered, frames>>

Consumer ==
    \/ GetEvent
    \/ GetMarker
    \/ PollEmpty
    \/ SendDone

Next ==
    \/ Worker
    \/ Consumer
    \/ Disconnect

Spec == Init /\ [][Next]_vars

\* The worker thread is scheduled, every remote call returns or raises, and
\* the event loop keeps resuming event_generator while the client is there.
FairSpec == Spec /\ WF_vars(Worker) /\ WF_vars(Consumer)

(***************************************************************************)
(* Vocabulary of the properties.                                           *)
(***************************************************************************)
IsPrefix(s, t) == Len(s) <= Len(t) /\ \A i \in 1..Len(s) : s[i] = t[i]
Last(s) == s[Len(s)]
Count(s, Test(_)) == Cardinality({i \in 1..Len(s) : Test(s[i])})

IsMarker(item) == item = None
IsEvent(item) == item # None
IsDone(frame) == frame.event = "done"
IsError(event) == event.event = "error"
IsDeleted(event) == event.event = "conversation_deleted"
IsCreated(event) == event.event = "conversation_created"

CallsOf(op) == SelectSeq(remote_calls, LAMBDA c : c.op = op)
CreateReturned == \E i \in 1..Len(remote_calls) :
    remote_calls[i].op = "create" /\ remote_calls[i].outcome = "returned"
CreateRaised == \E i \in 1..Len(remote_calls) :
    remote_calls[i].op = "create" /\ remote_calls[i].outcome = "raised"
OpenRaised == \E i \in 1..Len(remote_calls) :
    remote_calls[i].op = "open" /\ remote_calls[i].outcome = "raised"
DeleteCalled == CallsOf("delete") # <<>>
DeleteReturned == \E i \in 1..Len(remote_calls) :
    remote_calls[i].op = "delete" /\ remote_calls[i].outcome = "returned"
DeleteRaised == \E i \in 1..Len(remote_calls) :
    remote_calls[i].op = "delete" /\ remote_calls[i].outcome = "raised"

\* Everything ever put on event_queue, in the order it was put: the consumer
\* takes from the head and logs what it takes.
AllPut == delivered \o event_queue
PutEvents == SelectSeq(AllPut, IsEvent)
DeliveredEvents == SelectSeq(delivered, IsEvent)
MarkersPut == Count(AllPut, IsMarker)

\* The events the request produced for the outward stream: what the
\* generator yielded, then the error event of run_sync_generator, if any.
Produced ==
    yielded \o (IF worker_exc = NoException THEN <<>>
                ELSE <<ErrorEvent(worker_exc)>>)

RECURSIVE Images(_)
\* The non-null normalized images of raw events, in order.
Images(raw) ==
    IF raw = <<>> THEN <<>>
    ELSE LET r == process_stream_event(Head(raw))
         IN  (IF r.kind = "return" THEN <<r.value>> ELSE <<>>) \o Images(Tail(raw))

\* The frame of an event as its own frame; an event json.dumps rejects has none.
NoFrame == [event |-> "<no frame>"]
OwnFrame(event) ==
    IF EventFrame(event).kind = "return" THEN EventFrame(event).value ELSE NoFrame
FramesOf(events) == [i \in 1..Len(events) |-> OwnFrame(events[i])]

\* json.dumps raised on an event the consumer took.
SerializationFailed ==
    \E i \in 1..Len(delivered) :
        IsEvent(delivered[i]) /\ EventFrame(delivered[i]).kind = "raise"
\* The delivered events before the first one json.dumps rejected.
BeforeFailure ==
    LET bad == {i \in 1..Len(delivered) :
                    IsEvent(delivered[i]) /\ EventFrame(delivered[i]).kind = "raise"}
        first == CHOOSE i \in bad : \A j \in bad : i <= j
    IN  SubSeq(delivered, 1, first - 1)

\* The delivered events json.dumps accepted before it first raised.
Serialized == IF SerializationFailed THEN BeforeFailure ELSE DeliveredEvents
\* The frames event_generator yields of its own: the error frame of its
\* except clause and the done frame.
EndingFrames ==
    (IF SerializationFailed THEN <<ErrorFrame(TypeError)>> ELSE <<>>)
        \o (IF cstate = "done" THEN <<DoneFrame>> ELSE <<>>)

Disconnected == cstate = "cancelled"
DoneSent == cstate = "done"

(***************************************************************************)
(* C1  Terminal-frame guarantee.                                           *)
(***************************************************************************)
DoneFrames == Count(frames, IsDone)

\* C1: in every state at most one done frame has been yielded and, once it
\* has, it is the last frame and the generator has ended; and every request
\* whose client stays connected (the stream ending or raising within
\* MaxEvents events, whatever create, the stream, delete and json.dumps do)
\* comes to yield it.
C1_TerminalFrame ==
    /\ [](/\ DoneFrames <= 1
          /\ DoneFrames = 1 <=> DoneSent
          /\ DoneSent => Last(frames) = DoneFrame)
    /\ <>(DoneSent \/ Disconnected)

\* A request that went wrong at every stage still ended with the done frame.
C1_Witness ==
    /\ DoneSent
    /\ stream_exc # NoException
    /\ DeleteRaised
    /\ SerializationFailed
    /\ Last(frames) = DoneFrame
    /\ DoneFrames = 1

(***************************************************************************)
(* C2  Cleanup liveness.                                                   *)
(***************************************************************************)
\* conversations.delete was called for the conversation create() returned.
DeletedOwnConversation ==
    /\ conversation # None
    /\ \E i \in 1..Len(remote_calls) :
           /\ remote_calls[i].op = "delete"
           /\ remote_calls[i].conversation_id = conversation.id.s

\* C2: once conversations.create() has returned, the delete call for that
\* conversation comes to be made and the worker thread comes to finish, on
\* every path: the stream ending, the stream (or its opening) raising, and
\* the client disconnecting at any moment.
C2_CleanupLiveness ==
    /\ CreateReturned ~> DeletedOwnConversation
    /\ CreateReturned ~> (wstate = "finished" /\ DeletedOwnConversation)

\* The client left before it had taken anything, the stream raised, and the
\* worker still deleted the conversation and finished.
C2_Witness ==
    /\ Disconnected
    /\ delivered = <<>>
    /\ stream_exc = StreamError
    /\ DeletedOwnConversation
    /\ wstate = "finished"

(***************************************************************************)
(* C3  Cleanup safety.                                                     *)
(***************************************************************************)
\* C3: at most one delete call is made; each delete call comes after a
\* create call that returned, and names the id that call returned; after a
\* create call that raised there is no delete call.
C3_CleanupSafety ==
    /\ Len(CallsOf("delete")) <= 1
    /\ \A i \in 1..Len(remote_calls) :
           remote_calls[i].op = "delete" =>
               \E j \in 1..(i - 1) :
                   /\ remote_calls[j].op = "create"
                   /\ remote_calls[j].outcome = "returned"
                   /\ remote_calls[j].conversation_id
                          = remote_calls[i].conversation_id
    /\ CreateRaised => ~DeleteCalled

\* A delete call was made, and it failed, for the conversation created.
C3_Witness ==
    /\ DeleteRaised
    /\ Len(CallsOf("delete")) = 1
    /\ CallsOf("delete")[1].conversation_id = conversation.id.s
    /\ wstate = "finished"

(***************************************************************************)
(* C4  Deletion-failure isolation.                                         *)
(***************************************************************************)
\* What the request puts on the queue apart from the outcome of the delete
\* call: conversation_created, the images of the raw events received, and
\* the error event of a failed stream.
PutBeforeDelete ==
    <<ConversationCreated(conversation)>> \o Images(received)
        \o (IF stream_exc = NoException THEN <<>> ELSE <<ErrorEvent(stream_exc)>>)

\* C4: when the delete call raised, the events put on the queue are exactly
\* those put before it (no error event and no conversation_deleted comes
\* from it), nothing but the end-of-stream marker follows them, and the
\* worker comes to put that marker and the consumer, unless the client
\* disconnects, to send the done frame.
C4_DeletionFailureIsolation ==
    /\ [](DeleteRaised =>
            /\ PutEvents = PutBeforeDelete
            /\ Count(PutEvents, IsDeleted) = 0
            /\ worker_exc = NoException
            /\ wstate = "finished" => AllPut = PutBeforeDelete \o <<None>>
            /\ DoneSent => Last(frames) = DoneFrame)
    /\ DeleteRaised ~> (wstate = "finished" /\ MarkersPut = 1)
    /\ DeleteRaised ~> (DoneSent \/ Disconnected)

\* The stream ended normally, the delete call raised, and the client got
\* conversation_created and the done frame and no error frame.
C4_Witness ==
    /\ DeleteRaised
    /\ stream_exc = NoException
    /\ received = <<ItemAddedNoItem>>
    /\ DoneSent
    /\ frames = <<OwnFrame(ConversationCreated(conversation)), DoneFrame>>

(***************************************************************************)
(* C5  Ordering preservation.                                              *)
(***************************************************************************)
\* C5: under every interleaving of the worker and the consumer, the events
\* the consumer has taken from the queue are a prefix of the events the
\* request produced, in the order they were produced, and the frames yielded
\* are the frames of those events, one each and in that order, up to the
\* consumer's own ending (its error frame, its done frame).
C5_OrderingPreservation ==
    /\ IsPrefix(DeliveredEvents, Produced)
    /\ frames = FramesOf(Serialized) \o EndingFrames

\* The worker has finished and the consumer has taken three events, the
\* second and third different, and yielded the third's frame in third place.
C5_Witness ==
    /\ Len(DeliveredEvents) >= 3
    /\ DeliveredEvents[2] # DeliveredEvents[3]
    /\ Len(frames) >= 3
    /\ frames[3] = OwnFrame(Produced[3])
    /\ wstate = "finished"

C7_CreationFailure ==
    CreateRaised =>
        /\ yielded = <<>>
        /\ remote_calls = <<Call("create", "", "raised")>>
        /\ conversation = None
        /\ IsPrefix(AllPut, <<ErrorEvent(CreateError), None>>)
        /\ PutEvents = <<ErrorEvent(CreateError)>>
        /\ wstate \in {"completing", "finished"}
        /\ wstate = "finished" => AllPut = <<ErrorEvent(CreateError), None>>
        /\ IsPrefix(frames, <<ErrorFrame(CreateError), DoneFrame>>)
        /\ DoneSent => frames = <<ErrorFrame(CreateError), DoneFrame>>

\* The client received the error frame and the done frame of a request whose
\* conversation could not be created.
C7_Witness ==
    /\ CreateRaised
    /\ DoneSent
    /\ frames = <<ErrorFrame(CreateError), DoneFrame>>
    /\ wstate = "finished"

(***************************************************************************)
(* C8  Mid-stream failure.                                                 *)
(***************************************************************************)
\* What the generator yields when streaming failed: conversation_created,
\* the images of the raw events received, the error event of the exception
\* and, once the delete call has returned, conversation_deleted.
YieldedOnFailure ==
    <<ConversationCreated(conversation)>> \o Images(received)
        \o <<ErrorEvent(stream_exc)>>
        \o (IF DeleteReturned THEN <<ConversationDeleted(conversation)>> ELSE <<>>)

\* C8: when creation succeeded and opening the stream raised, or iterating
\* it raised after k events, the generator yields conversation_created, the
\* non-null images of those k events in order, one error event carrying the
\* description of that exception, then conversation_deleted if the delete
\* call returns, and nothing else: the stream is not read again.  The worker
\* then puts the marker, and the frames of a connected client end with done
\* (and are the frames of these events when json.dumps accepts them all).
\* An exception of process_stream_event on the (k+1)-th event takes the same
\* path.
C8_MidStreamFailure ==
    stream_exc # NoException =>
        /\ CreateReturned
        /\ stream_exc \in {OpenError, StreamError, AttributeError}
        /\ OpenRaised <=> stream_exc = OpenError
        /\ OpenRaised => received = <<>>
        /\ wstate \in {"deleting", "completing", "finished"}
        /\ yielded = YieldedOnFailure
        /\ wstate = "finished" => AllPut = YieldedOnFailure \o <<None>>
        /\ DoneSent => Last(frames) = DoneFrame
        /\ (DoneSent /\ ~SerializationFailed) =>
               frames = FramesOf(YieldedOnFailure) \o <<DoneFrame>>

\* The stream raised after two events with non-null images; the client got
\* conversation_created, the two images, the error, conversation_deleted and
\* the done frame.
C8_Witness ==
    /\ stream_exc = StreamError
    /\ received = <<TextDelta, ErrorKind>>
    /\ DeleteReturned
    /\ DoneSent
    /\ Len(frames) = 6
    /\ frames = FramesOf(YieldedOnFailure) \o <<DoneFrame>>
    /\ frames[4] = OwnFrame(ErrorEvent(StreamError))

(***************************************************************************)
(* C9  Success sequence.                                                   *)
(***************************************************************************)
\* What the generator yields when nothing failed.
YieldedOnSuccess ==
    <<ConversationCreated(conversation)>> \o Images(received)
        \o <<ConversationDeleted(conversation)>>

\* Creation, streaming and deletion succeeded and the client stayed connected
\* to the end.
AllSucceeded ==
    CreateReturned /\ stream_exc = NoException /\ DeleteReturned /\ DoneSent

C10_CancellationOnDisconnect ==
    [][Disconnected => /\ delivered' = delivered
                       /\ received' = received]_vars

(***************************************************************************)
(* The normalizer on every shape of raw event.  NormSpec starts where the  *)
(* stream has just been opened and lets the stream deliver one raw event   *)
(* of any kind with any of its attributes absent, then one more event.     *)
(***************************************************************************)
OptionalStr(s) == {Absent, Str(s)}

\* The item sub-records: any type, each attribute there or not.
Items ==
    {[py |-> "instance", type |-> t, action_id |-> a, status |-> s,
      previous_action_id |-> p, role |-> r, id |-> i] :
        t \in {Absent, Str("workflow_action"), Str("message"), Str("function_call")},
        a \in OptionalStr("a1"), s \in OptionalStr("running"),
        p \in OptionalStr("a0"), r \in OptionalStr("assistant"),
        i \in OptionalStr("msg_1")}

Usages ==
    {Usage(input, output) : input \in {Absent, IntV(1)}, output \in {Absent, IntV(2)}}

Responses ==
    {Response(id, usage) : id \in OptionalStr("resp_1"),
                           usage \in {Absent, None} \cup Usages}

Parts == {Part(t) : t \in OptionalStr("output_text")}

\* A kind the code does not know.
FUTURE_KIND == "response.reasoning.delta"

KnownKinds ==
    {RESPONSE_OUTPUT_TEXT_DONE, RESPONSE_OUTPUT_TEXT_DELTA,
     RESPONSE_OUTPUT_ITEM_ADDED, RESPONSE_OUTPUT_ITEM_DONE, RESPONSE_CREATED,
     RESPONSE_IN_PROGRESS, RESPONSE_COMPLETED, RESPONSE_FAILED,
     CONTENT_PART_ADDED, CONTENT_PART_DONE, ERROR}

\* The raw events of a kind: the attributes the kind carries, each there or
\* not (a sub-record may also be None).
EventsOfKind(kind) ==
    CASE kind = RESPONSE_OUTPUT_TEXT_DONE ->
            {[RawEvent(kind) EXCEPT !.text = v] : v \in OptionalStr("pong")}
      [] kind = RESPONSE_OUTPUT_TEXT_DELTA ->
            {[RawEvent(kind) EXCEPT !.delta = v] : v \in OptionalStr("po")}
      [] kind \in {RESPONSE_OUTPUT_ITEM_ADDED, RESPONSE_OUTPUT_ITEM_DONE} ->
            {[RawEvent(kind) EXCEPT !.item = v] : v \in {Absent, None} \cup Items}
      [] kind \in {RESPONSE_CREATED, RESPONSE_IN_PROGRESS, RESPONSE_COMPLETED} ->
            {[RawEvent(kind) EXCEPT !.response = v] :
                v \in {Absent, None} \cup Responses}
      [] kind = RESPONSE_FAILED ->
            {[RawEvent(kind) EXCEPT !.error = v] : v \in {Absent, None, Str("boom")}}
      [] kind \in {CONTENT_PART_ADDED, CONTENT_PART_DONE} ->
            {[RawEvent(kind) EXCEPT !.part = p, !.content_index = c] :
                p \in {Absent, None} \cup Parts, c \in {Absent, IntV(1)}}
      [] OTHER -> {RawEvent(kind)}

RawEvents ==
    UNION {EventsOfKind(kind) : kind \in KnownKinds \cup {FUTURE_KIND, "ping"}}

\* The request of conversation conv_1 right after responses.create returned
\* the stream: conversation_created is on the queue, nothing is received yet.
NormInit ==
    /\ wstate = "streaming"
    /\ conversation = Conversation("conv_1")
    /\ stream_exc = NoException
    /\ worker_exc = NoException
    /\ received = <<>>
    /\ remote_calls = <<Call("create", "conv_1", "returned"),
                        Call("open", "conv_1", "returned")>>
    /\ yielded = <<ConversationCreated(Conversation("conv_1"))>>
    /\ event_queue = <<ConversationCreated(Conversation("conv_1"))>>
    /\ delivered = <<>>
    /\ frames = <<>>
    /\ cstate = "polling"
    /\ requests = [r \in Requests |-> NewRequest]

\* The first raw event of the stream, of any shape.
NormalizeFirst ==
    /\ received = <<>>
    /\ \E event \in RawEvents : StreamEvent(event)

\* The raw event after it.
NormalizeNext ==
    /\ Len(received) = 1
    /\ \E event \in StreamEvents : StreamEvent(event)

NormNext == NormalizeFirst \/ NormalizeNext

NormSpec == NormInit /\ [][NormNext]_vars

\* The first raw event has just been handled, and what came of it.
FirstEvent == received[1]
FirstKind == received[1].type.s
JustNormalized == Len(received) = 1
FirstRaised == JustNormalized /\ stream_exc # NoException
FirstReturnedNone ==
    /\ JustNormalized
    /\ stream_exc = NoException
    /\ yielded = <<ConversationCreated(conversation)>>
FirstReturned(event) ==
    /\ JustNormalized
    /\ stream_exc = NoException
    /\ yielded = <<ConversationCreated(conversation), event>>

(***************************************************************************)
(* C11  Malformed or partial upstream events are never an error.           *)
(***************************************************************************)
\* C11: a raw event of a known kind, whichever of its attributes are absent,
\* raises nothing in process_stream_event: the stream goes on, and no error
\* event is yielded for it unless it is of the error kind itself.
C11_PartialNeverError ==
    (JustNormalized /\ FirstKind \in KnownKinds) =>
        /\ stream_exc = NoException
        /\ wstate = "streaming"
        /\ FirstKind # ERROR => Count(yielded, IsError) = 0

(***************************************************************************)
(* C14  Unknown-kind safety.                                               *)
(***************************************************************************)
\* C14: a raw event of a kind the code does not know is normalized to the
\* event `unknown` with data {type: the kind as a string}; nothing is raised
\* and the stream goes on.
C14_UnknownKindSafety ==
    (JustNormalized /\ FirstKind \notin KnownKinds) =>
        /\ FirstReturned(Outward("unknown", [type |-> Str(FirstKind)]))
        /\ wstate = "streaming"
        /\ event_queue = yielded

\* An event of a kind of the future was yielded as `unknown`.
C14_Witness ==
    /\ JustNormalized
    /\ FirstKind = FUTURE_KIND
    /\ yielded[2] = Outward("unknown", [type |-> Str("response.reasoning.delta")])

(***************************************************************************)
(* C15  Null-item suppression.                                             *)
(***************************************************************************)
\* The first raw event is an item-added or item-done event whose item is
\* absent or None.
FirstHasNoItem ==
    /\ Len(received) >= 1
    /\ FirstKind \in {RESPONSE_OUTPUT_ITEM_ADDED, RESPONSE_OUTPUT_ITEM_DONE}
    /\ FirstEvent.item \in {Absent, None}

\* C15: for an item-added or item-done event with no item, nothing is
\* yielded (no item_added, item_done or unknown, and no error) and the
\* stream goes on: the event after it is normalized and yielded as usual.
C15_NullItemSuppression ==
    FirstHasNoItem =>
        /\ JustNormalized => FirstReturnedNone /\ wstate = "streaming"
        /\ JustNormalized => event_queue = <<ConversationCreated(conversation)>>
        /\ (Len(received) = 2 /\ received[2] = TextDelta) =>
               /\ yielded = <<ConversationCreated(conversation),
                              Outward("text_delta", [delta |-> Str("pong")])>>
               /\ event_queue = yielded
               /\ wstate = "streaming"

\* An item-done event without item was passed over and the text delta after
\* it was yielded.
C15_Witness ==
    /\ FirstHasNoItem
    /\ FirstKind = RESPONSE_OUTPUT_ITEM_DONE
    /\ received[1].item = Absent
    /\ Len(received) = 2
    /\ received[2] = TextDelta
    /\ Len(yielded) = 2

(***************************************************************************)
(* C16  Default substitution.                                              *)
(***************************************************************************)
HasField(data, key, value) == key \in DOMAIN data /\ data[key] = value

\* The first raw event is an item-added event whose item is there.
FirstIsItemAdded ==
    /\ JustNormalized
    /\ FirstKind = RESPONSE_OUTPUT_ITEM_ADDED
    /\ FirstEvent.item \notin {Absent, None}

\* C16 as claimed: for an item-added event whose item is present, whatever
\* the item's type, the data of the event yielded has status = "unknown"
\* when the item has no status, and id = "N/A" when the item has no id.
C16_DefaultSubstitutionOriginal ==
    FirstIsItemAdded =>
        /\ Len(yielded) = 2
        /\ FirstEvent.item.status = Absent =>
               HasField(yielded[2].data, "status", Str("unknown"))
        /\ FirstEvent.item.id = Absent =>
               HasField(yielded[2].data, "id", Str("N/A"))

\* C16: for an item-added event whose item is present, one event is yielded;
\* when the item is a workflow_action without status its data has
\* status = "unknown", when the item is a message without id its data has
\* id = "N/A"; the data of a workflow_action has no id, that of a message no
\* status, and that of an item of another type has only the type ("unknown"
\* when the item has none).
C16_DefaultSubstitution ==
    FirstIsItemAdded =>
        LET item == FirstEvent.item
            data == yielded[2].data
        IN  /\ Len(yielded) = 2
            /\ stream_exc = NoException
            /\ item.type = Str("workflow_action") =>
                   /\ DOMAIN data = {"action_id", "status", "previous_action_id"}
                   /\ item.status = Absent => data.status = Str("unknown")
                   /\ item.status # Absent => data.status = item.status
            /\ item.type = Str("message") =>
                   /\ DOMAIN data = {"role", "id"}
                   /\ item.id = Absent => data.id = Str("N/A")
                   /\ item.id # Absent => data.id = item.id
            /\ item.type \notin {Str("workflow_action"), Str("message")} =>
                   /\ DOMAIN data = {"type"}
                   /\ item.type = Absent => data.type = Str("unknown")

\* A workflow action without status was yielded with status "unknown".
C16_Witness ==
    /\ FirstIsItemAdded
    /\ FirstEvent.item.status = Absent
    /\ FirstEvent.item.type = Str("workflow_action")
    /\ FirstEvent.item.action_id = Str("a1")
    /\ yielded[2] = Outward("action_started",
           [action_id |-> Str("a1"), status |-> Str("unknown"),
            previous_action_id |-> None])

(***************************************************************************)
(* C17  Mapping table.                                                     *)
(***************************************************************************)
Present(v) == v # Absent /\ v # None

\* The raw event has every attribute its kind's row of the table reads
\* (previous_action_id and usage may be missing: the table says what then).
WellFormed(e) ==
    LET kind == e.type.s IN
    CASE kind = RESPONSE_OUTPUT_TEXT_DONE -> Present(e.text)
      [] kind = RESPONSE_OUTPUT_TEXT_DELTA -> Present(e.delta)
      [] kind \in {RESPONSE_OUTPUT_ITEM_ADDED, RESPONSE_OUTPUT_ITEM_DONE} ->
            /\ Present(e.item)
            /\ Present(e.item.type)
            /\ e.item.type = Str("workflow_action") =>
                   Present(e.item.action_id) /\ Present(e.item.status)
            /\ e.item.type = Str("message") =>
                   Present(e.item.role) /\ Present(e.item.id)
      [] kind \in {RESPONSE_CREATED, RESPONSE_COMPLETED} ->
            /\ Present(e.response)
            /\ Present(e.response.id)
            /\ Present(e.response.usage) =>
                   /\ Present(e.response.usage.input_tokens)
                   /\ Present(e.response.usage.output_tokens)
      [] kind = RESPONSE_FAILED -> Present(e.error)
      [] kind \in {CONTENT_PART_ADDED, CONTENT_PART_DONE} ->
            Present(e.part) /\ Present(e.part.type) /\ Present(e.content_index)
      [] OTHER -> TRUE

\* The row of the table for an output item: its name by the item's type,
\* and the payload.
ItemRow(e, action, message, other) ==
    CASE e.item.type = Str("workflow_action") ->
            Outward(action,
                [action_id |-> e.item.action_id, status |-> e.item.status,
                 previous_action_id |->
                     IF e.item.previous_action_id = Absent THEN None
                     ELSE e.item.previous_action_id])
      [] e.item.type = Str("message") ->
            Outward(message, [role |-> e.item.role, id |-> e.item.id])
      [] OTHER -> Outward(other, [type |-> e.item.type])

\* The outward event the table gives for a well-formed raw event of a known
\* kind.
TableRow(e) ==
    LET kind == e.type.s IN
    CASE kind = RESPONSE_OUTPUT_TEXT_DONE -> Outward("text_done", [text |-> e.text])
      [] kind = RESPONSE_OUTPUT_TEXT_DELTA -> Outward("text_delta", [delta |-> e.delta])
      [] kind = RESPONSE_OUTPUT_ITEM_ADDED ->
            ItemRow(e, "action_started", "message_started", "item_added")
      [] kind = RESPONSE_OUTPUT_ITEM_DONE ->
            ItemRow(e, "action_completed", "message_done", "item_done")
      [] kind = RESPONSE_CREATED ->
            Outward("response_status",
                [status |-> Str("created"), response_id |-> e.response.id])
      [] kind = RESPONSE_IN_PROGRESS ->
            Outward("response_status", [status |-> Str("in_progress")])
      [] kind = RESPONSE_COMPLETED ->
            Outward("response_status",
                [status |-> Str("completed"),
                 usage |-> IF Present(e.response.usage)
                           THEN Dict([input_tokens |-> e.response.usage.input_tokens,
                                      output_tokens |-> e.response.usage.output_tokens])
                           ELSE EmptyDict])
      [] kind = RESPONSE_FAILED ->
            Outward("response_status",
                [status |-> Str("failed"), error |-> e.error])
      [] kind = CONTENT_PART_ADDED ->
            Outward("content_part_added",
                [type |-> e.part.type, content_index |-> e.content_index])
      [] kind = CONTENT_PART_DONE ->
            Outward("content_part_done",
                [type |-> e.part.type, content_index |-> e.content_index])
      [] kind = ERROR ->
            Outward("error", [message |-> Str("<error>")])

\* C17: for every well-formed raw event of a known kind, the event yielded is
\* the one of the table, name and payload.
C17_MappingTable ==
    (JustNormalized /\ FirstKind \in KnownKinds /\ WellFormed(FirstEvent)) =>
        FirstReturned(TableRow(FirstEvent))

\* Scenario B: the workflow action a1, running, with no previous action.
C17_Witness ==
    /\ JustNormalized
    /\ FirstKind = RESPONSE_OUTPUT_ITEM_ADDED
    /\ WellFormed(FirstEvent)
    /\ FirstEvent.item.previous_action_id = Absent
    /\ yielded[2] = Outward("action_started",
           [action_id |-> Str("a1"), status |-> Str("running"),
            previous_action_id |-> None])

(***************************************************************************)
(* C12  Transport-level failure.                                           *)
(***************************************************************************)
\* C12: when json.dumps has raised on a dequeued event, the frames are those
\* of the events before it, then the error frame of that exception, then
\* (once sent) the done frame, one and last; and unless the client
\* disconnects the done frame comes to be sent.
C12_TransportFailure ==
    /\ [](SerializationFailed =>
            /\ cstate \in {"failed", "done", "cancelled"}
            /\ frames = FramesOf(BeforeFailure) \o <<ErrorFrame(TypeError)>>
                            \o (IF DoneSent THEN <<DoneFrame>> ELSE <<>>)
            /\ DoneFrames <= 1
            /\ DoneSent => Last(frames) = DoneFrame /\ DoneFrames = 1)
    /\ SerializationFailed ~> (DoneSent \/ Disconnected)

\* The payload of the second event could not be serialized: the client got
\* conversation_created, the error frame and the done frame.
C12_Witness ==
    /\ SerializationFailed
    /\ DoneSent
    /\ received = <<ActionOpaque>>
    /\ frames = <<OwnFrame(ConversationCreated(conversation)),
                  ErrorFrame(TypeError), DoneFrame>>

(***************************************************************************)
(* C18  conversation_deleted.                                              *)
(***************************************************************************)
\* C18: conversation_deleted is yielded exactly when the delete call has
\* returned, at most once, with the conversation id of conversation_created
\* (the id the delete call was made for), and after everything the stream
\* gave rise to: the images of the raw events and the error event of a
\* failed stream.
C18_ConversationDeleted ==
    /\ Count(yielded, IsDeleted) = (IF DeleteReturned THEN 1 ELSE 0)
    /\ Count(PutEvents, IsDeleted) = (IF DeleteReturned THEN 1 ELSE 0)
    /\ DeleteReturned =>
           /\ IsCreated(yielded[1])
           /\ Last(yielded) = ConversationDeleted(conversation)
           /\ Last(yielded).data.conversation_id = yielded[1].data.conversation_id
           /\ CallsOf("delete")[1].conversation_id
                  = Last(yielded).data.conversation_id.s
           /\ yielded = <<ConversationCreated(conversation)>> \o Images(received)
                  \o (IF stream_exc = NoException THEN <<>>
                      ELSE <<ErrorEvent(stream_exc)>>)
                  \o <<ConversationDeleted(conversation)>>

\* After a stream that raised behind one event, the conversation conv_2 was
\* deleted and conversation_deleted yielded last.
C18_Witness ==
    /\ DeleteReturned
    /\ stream_exc = StreamError
    /\ received = <<TextDelta>>
    /\ Len(yielded) = 4
    /\ yielded[4] = Outward("conversation_deleted", [conversation_id |-> Str("conv_2")])
    /\ yielded[1] = Outward("conversation_created", [conversation_id |-> Str("conv_2")])

(***************************************************************************)
(* C19  End-of-stream marker discipline.                                   *)
(***************************************************************************)
\* C19: at most one marker is ever put; the worker has finished exactly when
\* it has put it; it is the last item put; the consumer has taken it at most
\* once, as the last item it took, and has then left its loop; and the
\* worker comes to put it on every path.
C19_MarkerDiscipline ==
    /\ [](/\ MarkersPut <= 1
          /\ wstate = "finished" <=> MarkersPut = 1
          /\ MarkersPut = 1 => Last(AllPut) = None
          /\ Count(delivered, IsMarker) = 1 =>
                 Last(delivered) = None /\ cstate = "done"
          /\ (cstate = "done" /\ ~SerializationFailed) =>
                 Count(delivered, IsMarker) = 1)
    /\ <>(wstate = "finished" /\ MarkersPut = 1)

\* The marker was put after the error event of a creation that failed, and
\* taken by the consumer.
C19_Witness ==
    /\ CreateRaised
    /\ wstate = "finished"
    /\ delivered = <<ErrorEvent(CreateError), None>>
    /\ event_queue = <<>>
    /\ cstate = "done"

(***************************************************************************)
(* C20  The producer never waits for the consumer.                         *)
(***************************************************************************)
\* The worker alone is scheduled; the consumer may never poll.
ProducerSpec == Spec /\ WF_vars(Worker)

\* Every step of the worker that puts an item is enabled by the worker's
\* position alone, whatever event_queue holds.
PutsEnabled ==
    /\ wstate = "creating" =>
           /\ ENABLED CreateRaises
           /\ \A id \in ConversationIds : ENABLED CreateSucceeds(id)
    /\ wstate = "opening" => ENABLED OpenRaises
    /\ wstate = "streaming" =>
           /\ ENABLED StreamRaises
           /\ Len(received) < MaxEvents =>
                  \A event \in StreamEvents : ENABLED StreamEvent(event)
    /\ wstate = "deleting" => ENABLED DeleteSucceeds
    /\ wstate = "completing" => ENABLED PutMarker

\* C20: putting an item is enabled whatever the queue holds, so the worker
\* comes to the delete call and to the marker without the consumer ever
\* polling; the queue is not limited to one undelivered item.
C20_ProducerNeverWaits ==
    /\ []PutsEnabled
    /\ [](Len(event_queue) <= Len(Produced) + 1)
    /\ <>(wstate = "finished")
    /\ CreateReturned ~> DeleteCalled

\* The consumer has taken nothing and the queue holds the whole outward
\* sequence of the request (five events) and the marker.
C20_Witness ==
    /\ wstate = "finished"
    /\ delivered = <<>>
    /\ Len(Produced) = 5
    /\ event_queue = Produced \o <<None>>

(***************************************************************************)
(* Concurrent requests.  Every POST /api/chat runs event_generator         *)
(* anew: its event_queue, its worker thread and the generator of           *)
(* stream_agent_response with its project_client and conversation are      *)
(* locals of that call.  The requests meet only at the remote service,     *)
(* which makes a new conversation for every create call.  The actions are  *)
(* those of the single request, over requests[r].                          *)
(***************************************************************************)
\* The raw events a request's stream delivers before it ends, at most.
MaxConcurrentEvents == 1

\* A text delta answering the query of request r.
TextDeltaFor(r) ==
    [RawEvent(RESPONSE_OUTPUT_TEXT_DELTA) EXCEPT !.delta = Str("pong for " \o r)]

\* The raw events the stream opened for request r can deliver: text for
\* both queries, and for that of request_1 a workflow action json.dumps
\* cannot encode as well.
StreamEventsFor(r) ==
    IF r = "request_1" THEN {TextDeltaFor(r), ActionOpaque}
    ELSE {TextDeltaFor(r)}

\* A queue made once at module level: every call uses the first one.
QueueOfModule(r) == "request_1"

\* event_queue = queue.Queue() in the body of event_generator: the queue of
\* a call is the one that call made.
QueueOf(r) == r

\* The ids of the conversations the remote service has made.
IssuedIds ==
    {id \in ConversationIds :
        \E r \in Requests : \E i \in 1..Len(requests[r].remote_calls) :
            requests[r].remote_calls[i] = Call("create", id, "returned")}

request_vars == <<wstate, conversation, stream_exc, worker_exc, received,
                  remote_calls, yielded, event_queue, delivered, frames, cstate>>

\* event_queue.put(item) by the worker of request r.
PutIn(reqs, r, item) ==
    [reqs EXCEPT ![QueueOf(r)].event_queue = Put(@, item)]

\* The generator of request r yields event and its run_sync_generator puts it.
YieldAndPutIn(reqs, r, event) ==
    PutIn([reqs EXCEPT ![r].yielded = Append(@, event)], r, event)

\* A remote call made by the worker of request r.
CallIn(reqs, r, op, outcome) ==
    [reqs EXCEPT ![r].remote_calls =
        Append(@, Call(op, reqs[r].conversation.id.s, outcome))]

\* The except clause of stream_agent_response in request r.
StreamingFailedIn(reqs, r, e) ==
    YieldAndPutIn([reqs EXCEPT ![r].stream_exc = e, ![r].wstate = "deleting"],
                  r, ErrorEvent(e))

CreateSucceedsIn(r, id) ==
    /\ requests[r].wstate = "creating"
    /\ id \notin IssuedIds
    /\ requests' =
          YieldAndPutIn(
              [requests EXCEPT
                  ![r].conversation = Conversation(id),
                  ![r].remote_calls = Append(@, Call("create", id, "returned")),
                  ![r].wstate = "opening"],
              r, ConversationCreated(Conversation(id)))
    /\ UNCHANGED request_vars

CreateRaisesIn(r) ==
    /\ requests[r].wstate = "creating"
    /\ requests' =
          PutIn([requests EXCEPT
                    ![r].remote_calls = Append(@, Call("create", "", "raised")),
                    ![r].worker_exc = CreateError,
                    ![r].wstate = "completing"],
                r, ErrorEvent(CreateError))
    /\ UNCHANGED request_vars

OpenSucceedsIn(r) ==
    /\ requests[r].wstate = "opening"
    /\ requests' = CallIn([requests EXCEPT ![r].wstate = "streaming"],
                          r, "open", "returned")
    /\ UNCHANGED request_vars

OpenRaisesIn(r) ==
    /\ requests[r].wstate = "opening"
    /\ requests' = StreamingFailedIn(CallIn(requests, r, "open", "raised"),
                                     r, OpenError)
    /\ UNCHANGED request_vars

StreamEventIn(r, event) ==
    /\ requests[r].wstate = "streaming"
    /\ Len(requests[r].received) < MaxConcurrentEvents
    /\ LET got == [requests EXCEPT ![r].received = Append(@, event)]
           sse_event == process_stream_event(event)
       IN  requests' =
              CASE sse_event.kind = "return" ->
                       YieldAndPutIn(got, r, sse_event.value)
                [] sse_event.kind = "none" -> got
                [] sse_event.kind = "raise" ->
                       StreamingFailedIn(got, r, sse_event.exc)
    /\ UNCHANGED request_vars

StreamEndsIn(r) ==
    /\ requests[r].wstate = "streaming"
    /\ requests' = [requests EXCEPT ![r].wstate = "deleting"]
    /\ UNCHANGED request_vars

StreamRaisesIn(r) ==
    /\ requests[r].wstate = "streaming"
    /\ requests' = StreamingFailedIn(requests, r, StreamError)
    /\ UNCHANGED request_vars

DeleteSucceedsIn(r) ==
    /\ requests[r].wstate = "deleting"
    /\ requests' =
          YieldAndPutIn(CallIn([requests EXCEPT ![r].wstate = "completing"],
                               r, "delete", "returned"),
                        r, ConversationDeleted(requests[r].conversation))
    /\ UNCHANGED request_vars

DeleteRaisesIn(r) ==
    /\ requests[r].wstate = "deleting"
    /\ requests' = CallIn([requests EXCEPT ![r].wstate = "completing"],
                          r, "delete", "raised")
    /\ UNCHANGED request_vars

PutMarkerIn(r) ==
    /\ requests[r].wstate = "completing"
    /\ requests' = PutIn([requests EXCEPT ![r].wstate = "finished"], r, None)
    /\ UNCHANGED request_vars

WorkerIn(r) ==
    \/ \E id \in ConversationIds : CreateSucceedsIn(r, id)
    \/ CreateRaisesIn(r)
    \/ OpenSucceedsIn(r)
    \/ OpenRaisesIn(r)
    \/ \E event \in StreamEventsFor(r) : StreamEventIn(r, event)
    \/ StreamEndsIn(r)
    \/ StreamRaisesIn(r)
    \/ DeleteSucceedsIn(r)
    \/ DeleteRaisesIn(r)
    \/ PutMarkerIn(r)

\* The queue the consumer of request r polls.
QueueIn(r) == requests[QueueOf(r)].event_queue

GetEventIn(r) ==
    /\ requests[r].cstate = "polling"
    /\ QueueIn(r) # <<>>
    /\ Head(QueueIn(r)) # None
    /\ LET event == Head(QueueIn(r))
           frame == EventFrame(event)
           got == [requests EXCEPT ![QueueOf(r)].event_queue = Tail(@)]
       IN  requests' =
              IF frame.kind = "return"
              THEN [got EXCEPT ![r].delivered = Append(@, event),
                               ![r].frames = Append(@, frame.value)]
              ELSE [got EXCEPT ![r].delivered = Append(@, event),
                               ![r].frames = Append(@, ErrorFrame(frame.exc)),
                               ![r].cstate = "failed"]
    /\ UNCHANGED request_vars

GetMarkerIn(r) ==
    /\ requests[r].cstate = "polling"
    /\ QueueIn(r) # <<>>
    /\ Head(QueueIn(r)) = None
    /\ requests' =
          [[requests EXCEPT ![QueueOf(r)].event_queue = Tail(@)] EXCEPT
              ![r].delivered = Append(@, None),
              ![r].frames = Append(@, DoneFrame),
              ![r].cstate = "done"]
    /\ UNCHANGED request_vars

PollEmptyIn(r) ==
    /\ requests[r].cstate = "polling"
    /\ QueueIn(r) = <<>>
    /\ UNCHANGED vars

SendDoneIn(r) ==
    /\ requests[r].cstate = "failed"
    /\ requests' = [requests EXCEPT ![r].frames = Append(@, DoneFrame),
                                    ![r].cstate = "done"]
    /\ UNCHANGED request_vars

DisconnectIn(r) ==
    /\ requests[r].cstate \in {"polling", "failed"}
    /\ requests' = [requests EXCEPT ![r].cstate = "cancelled"]
    /\ UNCHANGED request_vars

ConsumerIn(r) ==
    \/ GetEventIn(r)
    \/ GetMarkerIn(r)
    \/ PollEmptyIn(r)
    \/ SendDoneIn(r)

ConcurrentNext ==
    \E r \in Requests :
        \/ WorkerIn(r)
        \/ ConsumerIn(r)
        \/ DisconnectIn(r)

\* The server with the requests of Requests in progress side by side, their
\* steps interleaved in every order.
ConcurrentSpec == Init /\ [][ConcurrentNext]_vars

\* The events request r produced for its outward stream.
ProducedIn(r) ==
    requests[r].yielded \o (IF requests[r].worker_exc = NoException THEN <<>>
                            ELSE <<ErrorEvent(requests[r].worker_exc)>>)

\* The frames the transport of request r can make of what r produced: the
\* frame of an event, the error frame for one json.dumps rejects, and done.
FramesFrom(r) ==
    LET produced == ProducedIn(r)
        TransportFrame(event) ==
            LET frame == EventFrame(event)
            IN  IF frame.kind = "return" THEN frame.value
                ELSE ErrorFrame(frame.exc)
    IN  {DoneFrame} \cup {TransportFrame(produced[i]) : i \in 1..Len(produced)}

\* The ids of the conversations the create calls of request r returned.
CreatedIn(r) ==
    {id \in ConversationIds :
        \E i \in 1..Len(requests[r].remote_calls) :
            requests[r].remote_calls[i] = Call("create", id, "returned")}

\* The ids request r asked the remote service to delete.
DeletedIn(r) ==
    {requests[r].remote_calls[i].conversation_id :
        i \in {j \in 1..Len(requests[r].remote_calls) :
                   requests[r].remote_calls[j].op = "delete"}}

\* What the generator of request r yields, told from what r itself met: its
\* conversation, its raw events, its streaming failure, its delete call.
OwnSequence(r) ==
    (IF CreatedIn(r) = {} THEN <<>>
     ELSE <<ConversationCreated(requests[r].conversation)>>)
    \o Images(requests[r].received)
    \o (IF requests[r].stream_exc = NoException THEN <<>>
        ELSE <<ErrorEvent(requests[r].stream_exc)>>)
    \o (IF \E i \in 1..Len(requests[r].remote_calls) :
               /\ requests[r].remote_calls[i].op = "delete"
               /\ requests[r].remote_calls[i].outcome = "returned"
        THEN <<ConversationDeleted(requests[r].conversation)>> ELSE <<>>)

\* Request r in a state of its own.
Isolated(r) ==
    /\ IsPrefix(SelectSeq(requests[r].delivered, IsEvent), ProducedIn(r))
    /\ LET own == FramesFrom(r)
       IN  \A i \in 1..Len(requests[r].frames) : requests[r].frames[i] \in own
    /\ DeletedIn(r) \subseteq CreatedIn(r)
    /\ \A o \in Requests \ {r} : DeletedIn(r) \cap CreatedIn(o) = {}
    /\ requests[r].yielded = OwnSequence(r)

\* A step that changes request r changes no other request.
StepsAlone ==
    \A r \in Requests :
        requests'[r] # requests[r] =>
            \A o \in Requests \ {r} : requests'[o] = requests[o]

\* C13: with two requests served side by side, under every interleaving,
\* every frame on a request's stream comes from what that request's own
\* worker produced, each worker deletes only a conversation its own create
\* call returned (and no other request's), each request's event sequence is
\* told by its own conversation, raw events and failures alone, and no step
\* of one request (its failure and its disconnect included) changes
\* anything of another.
C13_RequestIsolation ==
    /\ [](\A r \in Requests : Isolated(r))
    /\ [][StepsAlone]_vars

\* request_1 failed mid-stream and its client left; request_2, meanwhile,
\* ran to the end: its own four events and done.
C13_Witness ==
    /\ requests["request_1"].stream_exc = StreamError
    /\ requests["request_1"].cstate = "cancelled"
    /\ requests["request_2"].cstate = "done"
    /\ CreatedIn("request_1") # {} /\ CreatedIn("request_2") # {}
    /\ requests["request_2"].frames =
          FramesOf(<<ConversationCreated(requests["request_2"].conversation),
                     process_stream_event(TextDeltaFor("request_2")).value,
                     ConversationDeleted(requests["request_2"].conversation)>>)
          \o <<DoneFrame>>

(***************************************************************************)
(* Upstream events that report a failure.  The stream of Spec can deliver  *)
(* an event of the explicit error kind; here it can deliver events of the  *)
(* response-failed kind as well, at any place among the others.            *)
(***************************************************************************)
\* A response-failed event with an error description.
ResponseFailed ==
    [RawEvent(RESPONSE_FAILED) EXCEPT !.error = Str("model overloaded")]
\* A response-failed event with no error attribute.
ResponseFailedNoError == RawEvent(RESPONSE_FAILED)

FailedEvents == {ResponseFailed, ResponseFailedNoError}

ErrorKindNext ==
    \/ Next
    \/ \E event \in FailedEvents : StreamEvent(event)

ErrorKindSpec == Init /\ [][ErrorKindNext]_vars

\* The raw event is of the explicit error kind or of the response-failed kind.
IsErrorKind(event) == event.type.s \in {ERROR, RESPONSE_FAILED}

\* The outward event is what such a raw event is forwarded as: `error`, or
\* `response_status` with status failed.
ForwardsErrorKind(event, outward) ==
    \/ /\ event.type.s = ERROR
       /\ outward.event = "error"
    \/ /\ event.type.s = RESPONSE_FAILED
       /\ outward.event = "response_status"
       /\ outward.data.status = Str("failed")

\* The step takes an error-kind event from the stream: it is forwarded as an
\* ordinary event and the worker goes on streaming.
ErrorKindForwarded ==
    (received' # received /\ IsErrorKind(Last(received'))) =>
        /\ Len(yielded') = Len(yielded) + 1
        /\ ForwardsErrorKind(Last(received'), Last(yielded'))
        /\ event_queue' = Append(event_queue, Last(yielded'))
        /\ wstate = "streaming" /\ wstate' = "streaming"
        /\ stream_exc' = NoException

\* The step leaves streaming: an exception was caught, or the stream was
\* exhausted (no event is taken and nothing is yielded).
StreamingLeft ==
    (wstate = "streaming" /\ wstate' # "streaming") =>
        \/ stream_exc' # NoException
        \/ /\ received' = received
           /\ yielded' = yielded
           /\ wstate' = "deleting"

\* The number of exceptions caught while streaming: none or one.
ExceptionsCaught == IF stream_exc = NoException THEN 0 ELSE 1

\* C21: an upstream event of the explicit error kind or of the
\* response-failed kind is forwarded as an ordinary outward event (error,
\* resp. response_status with status failed) and the worker stays in
\* streaming with no exception recorded; the events that follow it are still
\* normalized and forwarded in order (what is yielded after
\* conversation_created starts with the images of all the raw events
\* received); streaming is left only by exhaustion or by an exception, which
\* is one of opening the stream, of iterating it, or of normalizing the
\* last event received; and the error events yielded are those of the
\* error-kind raw events plus one for the exception, if any.
C21_ErrorKindNotFailure ==
    /\ [][ErrorKindForwarded /\ StreamingLeft]_vars
    /\ [](CreateReturned =>
             IsPrefix(<<ConversationCreated(conversation)>> \o Images(received),
                      yielded))
    /\ [](stream_exc # NoException =>
             \/ stream_exc = OpenError /\ OpenRaised
             \/ stream_exc = StreamError
             \/ /\ stream_exc = AttributeError
                /\ received # <<>>
                /\ process_stream_event(Last(received)).kind = "raise")
    /\ [](Count(yielded, IsError) =
             Count(received, LAMBDA e : e.type.s = ERROR) + ExceptionsCaught)

\* The stream delivered an error event, a response-failed event and then a
\* text delta, and ended; all three were forwarded, between
\* conversation_created and conversation_deleted, and the client got them
\* and the done frame.
C21_Witness ==
    /\ received = <<ErrorKind, ResponseFailed, TextDelta>>
    /\ stream_exc = NoException
    /\ wstate = "finished"
    /\ Len(yielded) = 5
    /\ yielded[2].event = "error"
    /\ yielded[3] = Outward("response_status",
                            [status |-> Str("failed"),
                             error |-> Str("model overloaded")])
    /\ yielded[4].event = "text_delta"
    /\ DeleteReturned
    /\ DoneSent
    /\ frames = FramesOf(yielded) \o <<DoneFrame>>

====
